---- MODULE Spec2Model ----
(***************************************************************************)
(* Fragmented-MP4 box decoders of vsd (src/mp4parser/boxes.rs): TFHD,      *)
(* TFDT, MDHD and TRUN, each a linear pass of guarded reads over a byte    *)
(* cursor.                                                                 *)
(*                                                                         *)
(* Numbers.  TLC integers are 32 bits wide, so a 32- or 64-bit quantity is *)
(* held as its big-endian base-2^16 limbs: the u32 <<h, l>> denotes        *)
(* h * 2^16 + l, a u64 has four limbs, and an i32 is <<h, l>> with         *)
(* h in -2^15 .. 2^15-1.  A u16 is a plain integer.                        *)
(* Option<T> is <<>> (None) or <<v>> (Some(v)).                            *)
(***************************************************************************)
EXTENDS Integers, Sequences, FiniteSets

VARIABLES buf,      \* the bytes under the cursor, from the start of the box content
          pos,      \* the cursor position
          boxLen,   \* the content length the box header declared (walker's knowledge)
          box,      \* which decoder was called: "none" before the call
          flags,    \* the 24-bit flags handed to the decoder
          version,  \* the version handed to the decoder
          result    \* the Result<Self> the decoder returned

vars == <<buf, pos, boxLen, box, flags, version, result>>

\* ---------------------------------------------------------------- bounds

MaxSamples == 3
MaxWords == 7

\* ---------------------------------------------------------------- values

None == <<>>
Some(v) == <<v>>

\* (flags & bit) != 0 for a one-bit mask
HasFlag(f, bit) == (f \div bit) % 2 = 1

\* a & b on 16-bit operands
RECURSIVE BitAnd16(_, _, _)
BitAnd16(a, b, n) ==
    IF n = 0 THEN 0
    ELSE (a % 2) * (b % 2) + 2 * BitAnd16(a \div 2, b \div 2, n - 1)

And16(a, b) == BitAnd16(a, b, 16)

\* `x as u64` of a u32: zero extension
WidenU64(v) == <<0, 0>> \o v

\* CastI32 with the cast left out: the unsigned value is kept
CastI32_Unsigned(v) == v

\* `x as i32` of a u32: the same 32 bits, read as two's complement
CastI32(v) == IF v[1] >= 32768 THEN <<v[1] - 65536, v[2]>> ELSE v

\* ---------------------------------------------------------------- Reader

Ok(p, v) == [ok |-> TRUE, pos |-> p, val |-> v]
Eof(p) == [ok |-> FALSE, pos |-> p]

Remaining(b, p) == Len(b) - p

skip(b, p, n) ==
    IF Remaining(b, p) < n THEN Eof(p) ELSE Ok(p + n, None)

read_u16(b, p) ==
    IF Remaining(b, p) < 2 THEN Eof(p)
    ELSE Ok(p + 2, b[p + 1] * 256 + b[p + 2])

read_u32(b, p) ==
    IF Remaining(b, p) < 4 THEN Eof(p)
    ELSE Ok(p + 4, <<b[p + 1] * 256 + b[p + 2], b[p + 3] * 256 + b[p + 4]>>)

read_i32(b, p) ==
    IF Remaining(b, p) < 4 THEN Eof(p)
    ELSE Ok(p + 4, <<(IF b[p + 1] >= 128 THEN b[p + 1] - 256 ELSE b[p + 1]) * 256
                        + b[p + 2],
                     b[p + 3] * 256 + b[p + 4]>>)

read_u64(b, p) ==
    IF Remaining(b, p) < 8 THEN Eof(p)
    ELSE Ok(p + 8, <<b[p + 1] * 256 + b[p + 2], b[p + 3] * 256 + b[p + 4],
                     b[p + 5] * 256 + b[p + 6], b[p + 7] * 256 + b[p + 8]>>)

\* a guarded read or skip: `if cond { op? }`, else nothing is consumed
Guarded(cond, r, p) == IF cond THEN r ELSE Ok(p, None)

\* the value of a guarded read as an Option
Opt(cond, r) == IF cond THEN Some(r.val) ELSE None

\* ---------------------------------------------------------------- TFHD

\* ParsedTFHDBox::parse without the skip of sample_description_index
ParsedTFHDBox_parse_NoSkip(b, p, f) ==
    LET r1 == read_u32(b, p) IN
    IF ~r1.ok THEN Eof(r1.pos) ELSE
    LET r2 == Guarded(HasFlag(f, 1), read_u64(b, r1.pos), r1.pos) IN
    IF ~r2.ok THEN Eof(r2.pos) ELSE
    LET r4 == Guarded(HasFlag(f, 8), read_u32(b, r2.pos), r2.pos) IN
    IF ~r4.ok THEN Eof(r4.pos) ELSE
    LET r5 == Guarded(HasFlag(f, 16), read_u32(b, r4.pos), r4.pos) IN
    IF ~r5.ok THEN Eof(r5.pos) ELSE
    Ok(r5.pos, [track_id |-> r1.val,
                default_sample_duration |-> Opt(HasFlag(f, 8), r4),
                default_sample_size |-> Opt(HasFlag(f, 16), r5),
                base_data_offset |-> Opt(HasFlag(f, 1), r2)])

ParsedTFHDBox_parse(b, p, f) ==
    LET r1 == read_u32(b, p) IN
    IF ~r1.ok THEN Eof(r1.pos) ELSE
    LET r2 == Guarded(HasFlag(f, 1), read_u64(b, r1.pos), r1.pos) IN
    IF ~r2.ok THEN Eof(r2.pos) ELSE
    LET r3 == Guarded(HasFlag(f, 2), skip(b, r2.pos, 4), r2.pos) IN
    IF ~r3.ok THEN Eof(r3.pos) ELSE
    LET r4 == Guarded(HasFlag(f, 8), read_u32(b, r3.pos), r3.pos) IN
    IF ~r4.ok THEN Eof(r4.pos) ELSE
    LET r5 == Guarded(HasFlag(f, 16), read_u32(b, r4.pos), r4.pos) IN
    IF ~r5.ok THEN Eof(r5.pos) ELSE
    Ok(r5.pos, [track_id |-> r1.val,
                default_sample_duration |-> Opt(HasFlag(f, 8), r4),
                default_sample_size |-> Opt(HasFlag(f, 16), r5),
                base_data_offset |-> Opt(HasFlag(f, 1), r2)])

\* ---------------------------------------------------------------- TFDT

\* ParsedTFDTBox::parse taking every version from 1 on as 64-bit
ParsedTFDTBox_parse_FromV1(b, p, v) ==
    LET r == IF v >= 1 THEN read_u64(b, p) ELSE read_u32(b, p) IN
    IF ~r.ok THEN Eof(r.pos) ELSE
    Ok(r.pos, [base_media_decode_time |-> IF v >= 1 THEN r.val ELSE WidenU64(r.val)])

ParsedTFDTBox_parse(b, p, v) ==
    LET r == IF v = 1 THEN read_u64(b, p) ELSE read_u32(b, p) IN
    IF ~r.ok THEN Eof(r.pos) ELSE
    Ok(r.pos, [base_media_decode_time |-> IF v = 1 THEN r.val ELSE WidenU64(r.val)])

\* ---------------------------------------------------------------- MDHD

\* String::from_utf16 over u16 code units: the code points, or an error on an
\* unpaired surrogate
RECURSIVE from_utf16(_)
from_utf16(u) ==
    IF u = <<>> THEN [ok |-> TRUE, val |-> <<>>]
    ELSE IF u[1] < 55296 \/ u[1] > 57343
         THEN LET rest == from_utf16(Tail(u)) IN
              IF rest.ok THEN [ok |-> TRUE, val |-> <<u[1]>> \o rest.val] ELSE rest
    ELSE IF u[1] <= 56319 /\ Len(u) >= 2 /\ u[2] >= 56320 /\ u[2] <= 57343
         THEN LET rest == from_utf16(Tail(Tail(u))) IN
              IF rest.ok
              THEN [ok |-> TRUE,
                    val |-> <<65536 + (u[1] - 55296) * 1024 + (u[2] - 56320)>> \o rest.val]
              ELSE rest
    ELSE [ok |-> FALSE]

\* the unpacking with the middle field shifted by the mask's lowest bit, 6
LanguageUnits_Shift6(language) ==
    <<(language \div 1024) + 96,
      (And16(language, 960) \div 64) + 96,
      And16(language, 31) + 96>>

\* the three u16 code units unpacked from the packed language
LanguageUnits(language) ==
    <<(language \div 1024) + 96,
      (And16(language, 960) \div 32) + 96,
      And16(language, 31) + 96>>

\* String::from_utf16(..).unwrap_or("")
LanguageString(language) ==
    LET s == from_utf16(LanguageUnits(language)) IN
    IF s.ok THEN s.val ELSE <<>>

ParsedMDHDBox_parse(b, p, v) ==
    LET n == IF v = 1 THEN 8 ELSE 4 IN
    LET r1 == skip(b, p, n) IN
    IF ~r1.ok THEN Eof(r1.pos) ELSE
    LET r2 == skip(b, r1.pos, n) IN
    IF ~r2.ok THEN Eof(r2.pos) ELSE
    LET r3 == read_u32(b, r2.pos) IN
    IF ~r3.ok THEN Eof(r3.pos) ELSE
    LET r4 == skip(b, r3.pos, 4) IN
    IF ~r4.ok THEN Eof(r4.pos) ELSE
    LET r5 == read_u16(b, r4.pos) IN
    IF ~r5.ok THEN Eof(r5.pos) ELSE
    Ok(r5.pos, [timescale |-> r3.val, language |-> LanguageString(r5.val)])

\* ---------------------------------------------------------------- TRUN

\* the per-sample reads with sample_size read before sample_duration
ParseSample_SizeFirst(b, p, f, v) ==
    LET r2 == Guarded(HasFlag(f, 512), read_u32(b, p), p) IN
    IF ~r2.ok THEN Eof(r2.pos) ELSE
    LET r1 == Guarded(HasFlag(f, 256), read_u32(b, r2.pos), r2.pos) IN
    IF ~r1.ok THEN Eof(r1.pos) ELSE
    LET r3 == Guarded(HasFlag(f, 1024), skip(b, r1.pos, 4), r1.pos) IN
    IF ~r3.ok THEN Eof(r3.pos) ELSE
    LET r4 == Guarded(HasFlag(f, 2048),
                      IF v = 0
                      THEN LET u == read_u32(b, r3.pos) IN
                           IF u.ok THEN Ok(u.pos, CastI32(u.val)) ELSE u
                      ELSE read_i32(b, r3.pos),
                      r3.pos) IN
    IF ~r4.ok THEN Eof(r4.pos) ELSE
    Ok(r4.pos, [sample_duration |-> Opt(HasFlag(f, 256), r1),
                sample_size |-> Opt(HasFlag(f, 512), r2),
                sample_composition_time_offset |-> Opt(HasFlag(f, 2048), r4)])

\* the per-sample reads with a short read of sample_size swallowed (`.ok()` for
\* `?`): the field stays None and the sample is kept
ParseSample_Swallow(b, p, f, v) ==
    LET r1 == Guarded(HasFlag(f, 256), read_u32(b, p), p) IN
    IF ~r1.ok THEN Eof(r1.pos) ELSE
    LET x2 == Guarded(HasFlag(f, 512), read_u32(b, r1.pos), r1.pos) IN
    LET r2 == IF x2.ok THEN x2 ELSE Ok(r1.pos, None) IN
    LET r3 == Guarded(HasFlag(f, 1024), skip(b, r2.pos, 4), r2.pos) IN
    IF ~r3.ok THEN Eof(r3.pos) ELSE
    LET r4 == Guarded(HasFlag(f, 2048),
                      IF v = 0
                      THEN LET u == read_u32(b, r3.pos) IN
                           IF u.ok THEN Ok(u.pos, CastI32(u.val)) ELSE u
                      ELSE read_i32(b, r3.pos),
                      r3.pos) IN
    IF ~r4.ok THEN Eof(r4.pos) ELSE
    Ok(r4.pos, [sample_duration |-> Opt(HasFlag(f, 256), r1),
                sample_size |-> IF x2.ok THEN Opt(HasFlag(f, 512), r2) ELSE None,
                sample_composition_time_offset |-> Opt(HasFlag(f, 2048), r4)])

\* one iteration of the per-sample loop
ParseSample(b, p, f, v) ==
    LET r1 == Guarded(HasFlag(f, 256), read_u32(b, p), p) IN
    IF ~r1.ok THEN Eof(r1.pos) ELSE
    LET r2 == Guarded(HasFlag(f, 512), read_u32(b, r1.pos), r1.pos) IN
    IF ~r2.ok THEN Eof(r2.pos) ELSE
    LET r3 == Guarded(HasFlag(f, 1024), skip(b, r2.pos, 4), r2.pos) IN
    IF ~r3.ok THEN Eof(r3.pos) ELSE
    LET r4 == Guarded(HasFlag(f, 2048),
                      IF v = 0
                      THEN LET u == read_u32(b, r3.pos) IN
                           IF u.ok THEN Ok(u.pos, CastI32(u.val)) ELSE u
                      ELSE read_i32(b, r3.pos),
                      r3.pos) IN
    IF ~r4.ok THEN Eof(r4.pos) ELSE
    Ok(r4.pos, [sample_duration |-> Opt(HasFlag(f, 256), r1),
                sample_size |-> Opt(HasFlag(f, 512), r2),
                sample_composition_time_offset |-> Opt(HasFlag(f, 2048), r4)])

\* i < sample_count, for the loop index i (an integer) and the u32 sample_count
IndexBelow(i, count) == count[1] > 0 \/ i < count[2]

\* for i in 0..sample_count { ... sample_data.push(sample) }
RECURSIVE SampleLoop(_, _, _, _, _, _, _)
SampleLoop(b, p, f, v, count, i, sample_data) ==
    IF ~IndexBelow(i, count) THEN Ok(p, sample_data)
    ELSE LET s == ParseSample(b, p, f, v) IN
         IF ~s.ok THEN Eof(s.pos)
         ELSE SampleLoop(b, s.pos, f, v, count, i + 1, Append(sample_data, s.val))

\* ParsedTRUNBox::parse without the skip of first_sample_flags
ParsedTRUNBox_parse_NoSkip(b, p, f, v) ==
    LET r1 == read_u32(b, p) IN
    IF ~r1.ok THEN Eof(r1.pos) ELSE
    LET r2 == Guarded(HasFlag(f, 1), read_u32(b, r1.pos), r1.pos) IN
    IF ~r2.ok THEN Eof(r2.pos) ELSE
    LET r4 == SampleLoop(b, r2.pos, f, v, r1.val, 0, <<>>) IN
    IF ~r4.ok THEN Eof(r4.pos) ELSE
    Ok(r4.pos, [sample_count |-> r1.val,
                sample_data |-> r4.val,
                data_offset |-> Opt(HasFlag(f, 1), r2)])

ParsedTRUNBox_parse(b, p, f, v) ==
    LET r1 == read_u32(b, p) IN
    IF ~r1.ok THEN Eof(r1.pos) ELSE
    LET r2 == Guarded(HasFlag(f, 1), read_u32(b, r1.pos), r1.pos) IN
    IF ~r2.ok THEN Eof(r2.pos) ELSE
    LET r3 == Guarded(HasFlag(f, 4), skip(b, r2.pos, 4), r2.pos) IN
    IF ~r3.ok THEN Eof(r3.pos) ELSE
    LET r4 == SampleLoop(b, r3.pos, f, v, r1.val, 0, <<>>) IN
    IF ~r4.ok THEN Eof(r4.pos) ELSE
    Ok(r4.pos, [sample_count |-> r1.val,
                sample_data |-> r4.val,
                data_offset |-> Opt(HasFlag(f, 1), r2)])

\* ---------------------------------------------------------------- inputs

\* a u32 below 2^16 as its four big-endian bytes
SmallWord(n) == <<0, 0, n \div 256, n % 256>>

\* first words: a small sample count / track id, or 0xFFFFFFFF
HeadWords == {SmallWord(n) : n \in 0 .. MaxSamples} \cup {<<255, 255, 255, 255>>}

\* the bytes after the first word follow one of three patterns: all 0x00, all
\* 0xFF (every field at its maximum, the i32 -1), or pairwise distinct bytes
\* with both signs of the top bit
Streams == {"zero", "ones", "mix"}

StreamByte(s, i) ==
    IF s = "zero" THEN 0 ELSE IF s = "ones" THEN 255 ELSE (37 * i) % 256

\* every buffer: a first word and a pattern, cut at any length
InputBufs ==
    {[i \in 1 .. n |-> IF i <= 4 THEN h[i] ELSE StreamByte(s, i)] :
        h \in HeadWords, s \in Streams, n \in 0 .. 4 * MaxWords}

\* bytes of a following sibling box that may sit in the same buffer
SiblingLens == {0, 4}

TFHDFlags == {a + 2 * c + 8 * d + 16 * e : a, c, d, e \in {0, 1}} \cup {32, 65537}
TRUNFlags ==
    {a + 4 * c + 256 * d + 512 * e + 1024 * g + 2048 * h : a, c, d, e, g, h \in {0, 1}}
        \cup {4096, 4864}
Versions == {0, 1, 2}

\* 16 bytes of MDHD version 0 content before the packed language
LangPrefix == <<0, 0, 0, 1, 0, 0, 0, 2, 0, 0, 3, 232, 0, 0, 0, 9>>

\* ---------------------------------------------------------------- actions

NoResult == [ok |-> FALSE, err |-> "not called"]

Init ==
    /\ buf \in InputBufs
    /\ boxLen \in {Len(buf) - s : s \in {x \in SiblingLens : x <= Len(buf)}}
    /\ pos = 0
    /\ box = "none"
    /\ flags = 0
    /\ version = 0
    /\ result = NoResult

\* the decoder returns: Ok(record) with the cursor after the last read, or the
\* reader's error, after which the cursor position is unspecified
Return(r) ==
    IF r.ok
    THEN /\ result' = [ok |-> TRUE, val |-> r.val]
         /\ pos' = r.pos
    ELSE /\ result' = [ok |-> FALSE, err |-> "UnexpectedEof"]
         /\ pos' \in r.pos .. Len(buf)

TFHD(f) ==
    /\ box = "none"
    /\ box' = "tfhd"
    /\ flags' = f
    /\ Return(ParsedTFHDBox_parse(buf, pos, f))
    /\ UNCHANGED <<buf, boxLen, version>>

TFDT(v) ==
    /\ box = "none"
    /\ box' = "tfdt"
    /\ version' = v
    /\ Return(ParsedTFDTBox_parse(buf, pos, v))
    /\ UNCHANGED <<buf, boxLen, flags>>

MDHD(v) ==
    /\ box = "none"
    /\ box' = "mdhd"
    /\ version' = v
    /\ Return(ParsedMDHDBox_parse(buf, pos, v))
    /\ UNCHANGED <<buf, boxLen, flags>>

\* the run is decoded when its loop is bounded: a sample count the buffer
\* cannot hold ends at the first short read only if a sample consumes bytes
TRUNBounded(f) ==
    LET c == read_u32(buf, pos) IN
    IF ~c.ok THEN TRUE
    ELSE (c.val[1] = 0 /\ c.val[2] <= MaxSamples)
         \/ (\E bit \in {256, 512, 1024, 2048} : HasFlag(f, bit))

TRUN(f, v) ==
    /\ box = "none"
    /\ TRUNBounded(f)
    /\ box' = "trun"
    /\ flags' = f
    /\ version' = v
    /\ Return(ParsedTRUNBox_parse(buf, pos, f, v))
    /\ UNCHANGED <<buf, boxLen>>

CallTFHD == \E f \in TFHDFlags : TFHD(f)
CallTFDT == \E v \in Versions : TFDT(v)
CallMDHD == \E v \in Versions : MDHD(v)
CallTRUN == \E f \in TRUNFlags, v \in {0, 1} : TRUN(f, v)

Next == CallTFHD \/ CallTFDT \/ CallMDHD \/ CallTRUN

Spec == Init /\ [][Next]_vars

\* every 16-bit packed language, in an MDHD version 0 box
InitLang ==
    /\ buf \in {LangPrefix \o <<l \div 256, l % 256>> : l \in 0 .. 65535}
    /\ boxLen = Len(buf)
    /\ pos = 0
    /\ box = "none"
    /\ flags = 0
    /\ version = 0
    /\ result = NoResult

NextLang == MDHD(0)

SpecLang == InitLang /\ [][NextLang]_vars

\* ================================================================ claims

\* the wire, read independently of the Reader: big-endian values at a byte offset
Bit(f, bit) == (f \div bit) % 2
U16At(off) == buf[off + 1] * 256 + buf[off + 2]
U32At(off) == <<U16At(off), U16At(off + 2)>>
U64At(off) == <<U16At(off), U16At(off + 2), U16At(off + 4), U16At(off + 6)>>
\* u if u < 2^31, else u - 2^32
SignedOf(u) == IF u[1] < 32768 THEN u ELSE <<u[1] - 65536, u[2]>>
U32Bytes(v) == <<v[1] \div 256, v[1] % 256, v[2] \div 256, v[2] % 256>>
U64Bytes(v) == U32Bytes(<<v[1], v[2]>>) \o U32Bytes(<<v[3], v[4]>>)
IfSome(o, bytes) == IF o = None THEN <<>> ELSE bytes

Called(b) == box = b
Decoded(b) == box = b /\ result.ok

\* ---- C1

TFHDNeed(f) == 4 + 8 * Bit(f, 1) + 4 * Bit(f, 2) + 4 * Bit(f, 8) + 4 * Bit(f, 16)

\* a TFHD record's present fields in wire order; the skipped
\* sample_description_index, which the record does not keep, is written as zero
EncodeTFHD(r, f) ==
    U32Bytes(r.track_id)
        \o IfSome(r.base_data_offset, U64Bytes(r.base_data_offset[1]))
        \o (IF Bit(f, 2) = 1 THEN <<0, 0, 0, 0>> ELSE <<>>)
        \o IfSome(r.default_sample_duration, U32Bytes(r.default_sample_duration[1]))
        \o IfSome(r.default_sample_size, U32Bytes(r.default_sample_size[1]))

\* C1: TFHD decodes whenever the buffer holds the bytes its flags call for; each
\* optional field is Some exactly when its flag bit is set (0x1, 0x8, 0x10), the
\* values come from the wire in the order track_id, base_data_offset, skipped
\* sample_description_index, default_sample_duration, default_sample_size, and
\* encoding the record under the same flags and decoding again gives it back.
C1_TFHDFields ==
    Called("tfhd") =>
        /\ (Len(buf) >= TFHDNeed(flags)) => result.ok
        /\ result.ok =>
            LET r == result.val
                o3 == 4 + 8 * Bit(flags, 1) + 4 * Bit(flags, 2)
                o4 == o3 + 4 * Bit(flags, 8)
                e == EncodeTFHD(r, flags)
            IN  /\ r.track_id = U32At(0)
                /\ r.base_data_offset =
                       (IF Bit(flags, 1) = 1 THEN Some(U64At(4)) ELSE None)
                /\ r.default_sample_duration =
                       (IF Bit(flags, 8) = 1 THEN Some(U32At(o3)) ELSE None)
                /\ r.default_sample_size =
                       (IF Bit(flags, 16) = 1 THEN Some(U32At(o4)) ELSE None)
                /\ ParsedTFHDBox_parse(e, 0, flags) = Ok(Len(e), r)

\* all four flag bits set, every optional field read, none of them zero
C1_Witness ==
    /\ Decoded("tfhd")
    /\ flags = 27
    /\ result.val.base_data_offset # None
    /\ result.val.default_sample_duration \notin {None, Some(<<0, 0>>)}
    /\ result.val.default_sample_size \notin {None, Some(<<0, 0>>)}

\* ---- C2

TRUNHeader(f) == 4 + 4 * Bit(f, 1) + 4 * Bit(f, 4)
PerSample(f) == 4 * (Bit(f, 256) + Bit(f, 512) + Bit(f, 1024) + Bit(f, 2048))

\* the i-th sample (from 0) as the wire holds it
WireSample(f, i) ==
    LET s == TRUNHeader(f) + i * PerSample(f)
        oSize == s + 4 * Bit(f, 256)
        oCto == oSize + 4 * Bit(f, 512) + 4 * Bit(f, 1024)
    IN  [sample_duration |-> IF Bit(f, 256) = 1 THEN Some(U32At(s)) ELSE None,
         sample_size |-> IF Bit(f, 512) = 1 THEN Some(U32At(oSize)) ELSE None,
         sample_composition_time_offset |->
             IF Bit(f, 2048) = 1 THEN Some(SignedOf(U32At(oCto))) ELSE None]

\* C2: a decoded TRUN holds exactly sample_count samples, the i-th being the
\* i-th sample of the wire, with duration / size / composition time offset
\* present for all samples or none according to flags 0x100 / 0x200 / 0x800.
C2_TRUNSamples ==
    Decoded("trun") =>
        LET r == result.val IN
        /\ r.sample_count = U32At(0)
        /\ <<0, Len(r.sample_data)>> = r.sample_count
        /\ \A i \in 1 .. Len(r.sample_data) :
               r.sample_data[i] = WireSample(flags, i - 1)

\* sample_count = 3, flags = 0x300, 24 bytes of sample data
C2_Witness ==
    /\ Decoded("trun")
    /\ flags = 768
    /\ Len(buf) = 28
    /\ Len(result.val.sample_data) = 3
    /\ \A i \in 1 .. 3 :
           /\ result.val.sample_data[i].sample_duration # None
           /\ result.val.sample_data[i].sample_size # None
           /\ result.val.sample_data[i].sample_composition_time_offset = None
    /\ result.val.sample_data[1] # result.val.sample_data[2]

\* ---- C3

MDHDNeed(v) == (IF v = 1 THEN 16 ELSE 8) + 4 + 4 + 2
TFDTNeed(v) == IF v = 1 THEN 8 ELSE 4

\* the buffer is shorter than the reads and skips of the called decoder require
TooShort ==
    IF box = "tfhd" THEN Len(buf) < TFHDNeed(flags)
    ELSE IF box = "tfdt" THEN Len(buf) < TFDTNeed(version)
    ELSE IF box = "mdhd" THEN Len(buf) < MDHDNeed(version)
    ELSE \/ Len(buf) < TRUNHeader(flags)
         \/ /\ PerSample(flags) > 0
            /\ \/ U32At(0)[1] > 0
               \/ Len(buf) < TRUNHeader(flags) + U32At(0)[2] * PerSample(flags)

\* the record a decoder returns has every field of its type
Complete ==
    IF box = "tfhd"
    THEN DOMAIN result.val = {"track_id", "default_sample_duration",
                              "default_sample_size", "base_data_offset"}
    ELSE IF box = "tfdt" THEN DOMAIN result.val = {"base_media_decode_time"}
    ELSE IF box = "mdhd" THEN DOMAIN result.val = {"timescale", "language"}
    ELSE /\ DOMAIN result.val = {"sample_count", "sample_data", "data_offset"}
         /\ <<0, Len(result.val.sample_data)>> = result.val.sample_count
         /\ \A i \in 1 .. Len(result.val.sample_data) :
                DOMAIN result.val.sample_data[i] =
                    {"sample_duration", "sample_size", "sample_composition_time_offset"}

\* C3: a decoder whose buffer is shorter than its reads and skips require
\* returns the insufficient-data error and no record; every outcome is either
\* that error (nothing else in it) or a complete record.
C3_AllOrNothing ==
    box # "none" =>
        /\ TooShort => ~result.ok
        /\ ~result.ok => result = [ok |-> FALSE, err |-> "UnexpectedEof"]
        /\ result.ok => Complete

\* the C2 input (3 samples, flags 0x300) cut by one byte in its last read
C3_Witness ==
    /\ Called("trun")
    /\ flags = 768
    /\ Len(buf) = 27
    /\ U32At(0) = <<0, 3>>
    /\ ~result.ok

\* ---- C7

\* C7: TFDT with version 1 consumes 8 bytes and returns the u64 on the wire;
\* with any other version it consumes 4 bytes and returns the u32 on the wire
\* zero-extended (its two high limbs are 0); encoding the result at the
\* version's width and decoding again gives it back.
C7_TFDTWidth ==
    Called("tfdt") =>
        /\ (Len(buf) >= TFDTNeed(version)) => result.ok
        /\ result.ok =>
            LET t == result.val.base_media_decode_time IN
            IF version = 1
            THEN /\ pos = 8
                 /\ t = U64At(0)
                 /\ ParsedTFDTBox_parse(U64Bytes(t), 0, version) = Ok(8, result.val)
            ELSE /\ pos = 4
                 /\ t = <<0, 0>> \o U32At(0)
                 /\ ParsedTFDTBox_parse(U32Bytes(<<t[3], t[4]>>), 0, version)
                        = Ok(4, result.val)

\* version 1 with a value of 2^48 or more whose low limbs differ
C7_Witness ==
    /\ Decoded("tfdt")
    /\ version = 1
    /\ result.val.base_media_decode_time[1] > 0
    /\ result.val.base_media_decode_time[4] # result.val.base_media_decode_time[2]

\* ---- C8

\* C8: with flag 0x800 every sample's composition time offset is the two's
\* complement reading of its 4 wire bytes (u below 2^31, u - 2^32 from there
\* on), whatever the version, and the other version's read of the same bytes
\* returns the same samples.
C8_SignedOffset ==
    (Decoded("trun") /\ Bit(flags, 2048) = 1) =>
        /\ \A i \in 1 .. Len(result.val.sample_data) :
               LET off == TRUNHeader(flags) + i * PerSample(flags) - 4 IN
               result.val.sample_data[i].sample_composition_time_offset
                   = Some(SignedOf(U32At(off)))
        /\ LET other == ParsedTRUNBox_parse(buf, 0, flags, 1 - version) IN
           other.ok /\ other.val = result.val

\* version 0, wire bytes 0xFFFFFFFF: -1
C8_Witness ==
    /\ Decoded("trun")
    /\ version = 0
    /\ Bit(flags, 2048) = 1
    /\ \E i \in 1 .. Len(result.val.sample_data) :
           /\ U32At(TRUNHeader(flags) + i * PerSample(flags) - 4) = <<65535, 65535>>
           /\ result.val.sample_data[i].sample_composition_time_offset
                  = Some(<<-1, 65535>>)

\* ---- C9

\* C9: a decoder that returns a record has not moved the cursor past the
\* declared end of its box, whatever bytes follow it in the buffer.
C9_StaysInBox == (box # "none" /\ result.ok) => pos <= boxLen

\* ---- C10

\* C10: a decoded TRUN has advanced the cursor by
\* 4 + 4*[0x1] + 4*[0x4] + N * 4 * (bits set among 0x100, 0x200, 0x400, 0x800);
\* with N = 0 and the header bytes in the buffer it decodes, whatever the
\* per-sample bits, to an empty sample sequence.
C10_TRUNConsumed ==
    Called("trun") =>
        /\ result.ok =>
               pos = TRUNHeader(flags) + U32At(0)[2] * PerSample(flags)
        /\ (Len(buf) >= TRUNHeader(flags) /\ U32At(0) = <<0, 0>>) =>
               /\ result.ok
               /\ result.val.sample_data = <<>>
               /\ pos = TRUNHeader(flags)

\* no samples, every flag bit set: 12 bytes consumed of a longer buffer
C10_Witness ==
    /\ Decoded("trun")
    /\ flags = 3845
    /\ U32At(0) = <<0, 0>>
    /\ Len(buf) > 12
    /\ pos = 12

\* ---- C4

\* the packed language of a decoded MDHD: the last two bytes it read
PackedLanguage == U16At(MDHDNeed(version) - 2)

\* C4: the characters of the decoded language are 0x60 + bits 10-14,
\* 0x60 + bits 5-9 and 0x60 + bits 0-4 of the packed value, in that order.
C4_FullFields ==
    Decoded("mdhd") =>
        result.val.language =
            <<96 + ((PackedLanguage \div 1024) % 32),
              96 + ((PackedLanguage \div 32) % 32),
              96 + (PackedLanguage % 32)>>

\* ---- C5

\* C5 as stated: the packed value 0x5595 decodes to "eng".
C5_Original ==
    (Decoded("mdhd") /\ PackedLanguage = 21909) =>
        result.val.language = <<101, 110, 103>>

\* C5 as amended: the packed value 0x5595 decodes to "ulu"; the packed value
\* that decodes to "eng" is 0x15C7.
C5_Amended ==
    Decoded("mdhd") =>
        /\ PackedLanguage = 21909 => result.val.language = <<117, 108, 117>>
        /\ PackedLanguage = 5575 => result.val.language = <<101, 110, 103>>

C5_Witness == Decoded("mdhd") /\ PackedLanguage = 21909 /\ Len(result.val.language) = 3

\* ---- C6

LowerCase == 97 .. 122

\* C6: the decoded language is three lowercase ASCII letters or empty, and it
\* is empty whenever an unpacked character is not a lowercase letter.
C6_LettersOrEmpty ==
    Decoded("mdhd") =>
        LET l == result.val.language IN
        /\ l = <<>> \/ (Len(l) = 3 /\ \A i \in 1 .. 3 : l[i] \in LowerCase)
        /\ (\E i \in 1 .. 3 : LanguageUnits(PackedLanguage)[i] \notin LowerCase)
               => l = <<>>

====
